---- MODULE Spec2Model ----
(***************************************************************************)
(* regex-chunker, module `stream`: ByteDecoder (decode / decode_eof),      *)
(* stream::ByteChunker (new / with_match / with_adapter / poll_next) and   *)
(* stream::CustomChunker (into_innards / get_adapter_mut / poll_next),     *)
(* driven by a byte source that hands out its content in arbitrary slices, *)
(* may fail, and may report 0 bytes before it has handed out everything.   *)
(*                                                                         *)
(* Byte positions are 0-based half-open ranges [start, end) as in the      *)
(* source; the byte at position i of a sequence s is s[i + 1].             *)
(***************************************************************************)
EXTENDS Integers, Sequences, FiniteSets, TLC

\* ------------------------------------------------------------------ bounds
MaxLen == 3        \* longest source content
MaxEnds == 2       \* how many end-of-stream reports are followed before stopping
MaxEvents == 1     \* how many out-of-the-ordinary events a run has: a failed read, a
                   \* 0-byte read with content left, a with_match call or an adapter
                   \* operation on a chunker in use

\* ------------------------------------------------------------ value spaces
Bytes == {"a", ","}

RECURSIVE SeqsUpTo(_)
SeqsUpTo(n) ==
    IF n = 0 THEN {<<>>}
    ELSE LET shorter == SeqsUpTo(n - 1)
         IN  shorter \cup {Append(s, x) : s \in {t \in shorter : Len(t) = n - 1}, x \in Bytes}

Inputs == SeqsUpTo(MaxLen)

\* pattern texts handed to ByteChunker::new, one character per element:
\*   ",+"   a run of delimiter bytes (the shape of "[ .,?]+")
\*   ",,"   a fixed two-byte delimiter (the shape of "\r\n")
\*   ",a?"  a delimiter with an optional second byte (the shape of "\r\n?")
\*   "+"    not a regular expression (repetition operator without operand)
Patterns == { <<",", "+">>, <<",", ",">>, <<",", "a", "?">>, <<"+">> }

Dispositions == {"Drop", "Append", "Prepend"}

None == [tag |-> "None"]
Some(v) == [tag |-> "Some", val |-> v]
Ok(v) == [tag |-> "Ok", val |-> v]
Err(e) == [tag |-> "Err", val |-> e]

\* --------------------------------------------------------- pattern engine
\* Regex::new: a pattern is a sequence of literal bytes, each optionally
\* followed by one of the repetition operators + and ?.
Quantifiers == {"+", "?"}

RECURSIVE ParseFrom(_, _)
ParseFrom(p, k) ==
    IF k > Len(p) THEN Ok(<<>>)
    ELSE IF p[k] \in Quantifiers THEN Err("regex syntax")
    ELSE LET q    == IF k < Len(p) /\ p[k + 1] \in Quantifiers THEN p[k + 1] ELSE "1"
             rest == ParseFrom(p, IF q = "1" THEN k + 1 ELSE k + 2)
         IN  IF rest.tag = "Err" THEN rest
             ELSE Ok(<<[byte |-> p[k], quant |-> q]>> \o rest.val)

RegexNew(pattern) == ParseFrom(pattern, 1)

\* number of consecutive bytes equal to b in h from position i on
RECURSIVE RunLen(_, _, _)
RunLen(h, i, b) ==
    IF i < Len(h) /\ h[i + 1] = b THEN 1 + RunLen(h, i + 1, b) ELSE 0

\* end of the preferred (leftmost-first, greedy) match of elements k.. of the
\* fence that starts at position i of h, or -1 when there is none
RECURSIVE MatchFrom(_, _, _, _)
RECURSIVE PlusFrom(_, _, _, _, _)
PlusFrom(fence, k, h, i, n) ==
    IF n = 0 THEN -1
    ELSE LET e == MatchFrom(fence, k + 1, h, i + n)
         IN  IF e # -1 THEN e ELSE PlusFrom(fence, k, h, i, n - 1)

MatchFrom(fence, k, h, i) ==
    IF k > Len(fence) THEN i
    ELSE LET el  == fence[k]
             hit == i < Len(h) /\ h[i + 1] = el.byte
         IN  CASE el.quant = "1" ->
                    IF hit THEN MatchFrom(fence, k + 1, h, i + 1) ELSE -1
               [] el.quant = "?" ->
                    LET e == IF hit THEN MatchFrom(fence, k + 1, h, i + 1) ELSE -1
                    IN  IF e # -1 THEN e ELSE MatchFrom(fence, k + 1, h, i)
               [] el.quant = "+" ->
                    PlusFrom(fence, k, h, i, RunLen(h, i, el.byte))

\* the earliest match that starts at or after position i, or None
RECURSIVE FindFrom(_, _, _)
FindFrom(fence, haystack, i) ==
    IF i > Len(haystack) THEN None
    ELSE LET e == MatchFrom(fence, 1, haystack, i)
         IN  IF e # -1 THEN Some(<<i, e>>)
             ELSE FindFrom(fence, haystack, i + 1)

\* Regex::find_at(haystack, start): Some(<<start, end>>) of the earliest match
\* at or after start, or None.  The search span start..len is rejected with a
\* panic when start > len + 1; the span of start = len + 1 is empty: no match.
find_at(fence, haystack, start) ==
    IF start > Len(haystack) + 1 THEN [tag |-> "Panic"]
    ELSE FindFrom(fence, haystack, start)

\* ------------------------------------------------------ BytesMut operations
split_to(src, at) == [head |-> SubSeq(src, 1, at), rest |-> SubSeq(src, at + 1, Len(src))]
advance(src, cnt) == SubSeq(src, cnt + 1, Len(src))

split(src) == [head |-> src, rest |-> <<>>]

\* ------------------------------------------------------------- ByteDecoder
\* A decoder is [fence, match_dispo, scan_offset].  decode and decode_eof
\* return [ret, d, src]: the value returned (None, Some(chunk) or a panic),
\* the decoder and the buffer as the call leaves them.
\* decode gone wrong: without a match it hands out what it holds
decode_eager(d, src) ==
    LET m == find_at(d.fence, src, d.scan_offset)
    IN  IF m.tag = "Panic" THEN [ret |-> m, d |-> d, src |-> src]
        ELSE IF m = None THEN
            IF src = <<>> THEN [ret |-> None, d |-> d, src |-> src]
            ELSE [ret |-> Some(src), d |-> d, src |-> <<>>]
        ELSE LET cut == split_to(src, m.val[1])
             IN  [ret |-> Some(cut.head), d |-> d, src |-> advance(cut.rest, m.val[2] - m.val[1])]

\* decode gone wrong: a search without a match forgets the scan offset
decode_forget(d, src) ==
    LET m == find_at(d.fence, src, d.scan_offset)
    IN  IF m.tag = "Panic" THEN [ret |-> m, d |-> d, src |-> src]
        ELSE IF m = None THEN [ret |-> None, d |-> [d EXCEPT !.scan_offset = 0], src |-> src]
        ELSE LET cut == split_to(src, IF d.match_dispo = "Append" THEN m.val[2] ELSE m.val[1])
             IN  [ret |-> Some(cut.head),
                  d   |-> IF d.match_dispo = "Prepend"
                          THEN [d EXCEPT !.scan_offset = m.val[2] - m.val[1]] ELSE d,
                  src |-> IF d.match_dispo = "Drop"
                          THEN advance(cut.rest, m.val[2] - m.val[1]) ELSE cut.rest]

\* decode gone wrong: under Prepend the fence is cut away with the chunk
decode_prepend_cut(d, src) ==
    LET m == find_at(d.fence, src, d.scan_offset)
    IN  IF m.tag = "Panic" THEN [ret |-> m, d |-> d, src |-> src]
        ELSE IF m = None THEN [ret |-> None, d |-> d, src |-> src]
        ELSE LET cut == split_to(src, IF d.match_dispo = "Append" THEN m.val[2] ELSE m.val[1])
             IN  [ret |-> Some(cut.head),
                  d   |-> d,
                  src |-> IF d.match_dispo = "Append"
                          THEN cut.rest ELSE advance(cut.rest, m.val[2] - m.val[1])]

decode(d, src) ==
    LET m == find_at(d.fence, src, d.scan_offset)
    IN  IF m.tag = "Panic" THEN [ret |-> m, d |-> d, src |-> src]
        ELSE IF m = None THEN [ret |-> None, d |-> d, src |-> src]
        ELSE LET start  == m.val[1]
                 end    == m.val[2]
                 length == end - start
             IN  CASE d.match_dispo = "Drop" ->
                        LET cut == split_to(src, start)
                        IN  [ret |-> Some(cut.head), d |-> d, src |-> advance(cut.rest, length)]
                   [] d.match_dispo = "Append" ->
                        LET cut == split_to(src, end)
                        IN  [ret |-> Some(cut.head), d |-> d, src |-> cut.rest]
                   [] d.match_dispo = "Prepend" ->
                        LET cut == split_to(src, start)
                        IN  [ret |-> Some(cut.head),
                             d   |-> [d EXCEPT !.scan_offset = length],
                             src |-> cut.rest]

\* decode_eof gone wrong: an unterminated remainder is thrown away
decode_eof_drop(d, src) ==
    LET r == decode(d, src)
    IN  IF r.ret.tag \in {"Some", "Panic"} THEN r
        ELSE [ret |-> None, d |-> r.d, src |-> <<>>]

decode_eof(d, src) ==
    LET r == decode(d, src)
    IN  IF r.ret.tag \in {"Some", "Panic"} THEN r
        ELSE IF r.src = <<>> THEN [ret |-> None, d |-> r.d, src |-> r.src]
        ELSE LET cut == split(r.src)
             IN  [ret |-> Some(cut.head), d |-> r.d, src |-> cut.rest]

\* ------------------------------------------------------------------ state
VARIABLES
    input,        \* the whole content of the source (AsyncRead)
    pos,          \* how many bytes of input the source has handed out
    errs,         \* how many reads the source has failed
    phase,        \* "unbuilt", "built", "failed" (new returned Err) or "panicked"
    decoder,      \* ByteDecoder: [fence, match_dispo, scan_offset], None before new
    buffer,       \* FramedRead's read buffer (the `src` of decode)
    eof,          \* FramedRead: the last read returned 0 bytes
    is_readable,  \* FramedRead: the buffer may hold a frame
    has_errored,  \* FramedRead: the last poll returned an error
    adapter,      \* CustomChunker's adapter, None for a plain ByteChunker
    results,      \* every Ready result of ByteChunker::poll_next, in order
    items,        \* every Ready result of CustomChunker::poll_next, in order
    reconf,       \* how many times with_match was called after the first poll
    stalls,       \* how many times the source reported 0 bytes with content left
    rewraps,      \* how many times the adapter was set, taken or replaced after the first poll
    last          \* the last operation and what it did

vars == <<input, pos, errs, phase, decoder, buffer, eof, is_readable, has_errored,
          adapter, results, items, reconf, stalls, rewraps, last>>

Pending == [tag |-> "Pending"]
Ready(v) == [tag |-> "Ready", val |-> v]
Panic == [tag |-> "Panic"]

\* --------------------------------------------------------------- the source
\* the out-of-the-ordinary events of the run so far, c being the chunker
\* within a request
Events(c) == c.errs + c.stalls + reconf + rewraps

\* AsyncRead::poll_read as FramedRead sees it: not ready, an error (also
\* after the source has reported 0 bytes), n >= 1 of the bytes still to come,
\* or 0 bytes.  0 bytes is the answer once the content is used up; a source
\* may also give it with content left (a stall) and hand out bytes later.
ReadOutcomes(c) ==
    {[kind |-> "Pending", n |-> 0]}
    \cup (IF Events(c) < MaxEvents THEN {[kind |-> "Err", n |-> 0]} ELSE {})
    \cup {[kind |-> "Ready", n |-> k] : k \in 1 .. (Len(input) - c.pos)}
    \cup (IF c.pos = Len(input) \/ c.eof \/ Events(c) < MaxEvents
          THEN {[kind |-> "Ready", n |-> 0]} ELSE {})

\* ------------------------------------------- FramedRead (Stream::poll_next)
\* c is the chunker and its source:
\* [d, buffer, eof, is_readable, has_errored, pos, errs, stalls].
\* One invocation runs the loop until it returns; the result is the set of
\* [c, ret, trace] it can end with, one for each way the source can answer.
\* trace lists the decoder calls and source polls of the invocation in order.
RECURSIVE FramedLoop(_, _)
\* the read step gone wrong: a failed read empties the buffer
FramedRead_discard(c, trace, o) ==
    IF o.kind = "Pending" THEN {[c |-> c, ret |-> Pending, trace |-> Append(trace, "read:Pending")]}
    ELSE IF o.kind = "Err" THEN
        {[c     |-> [c EXCEPT !.has_errored = TRUE, !.errs = @ + 1, !.buffer = <<>>],
          ret   |-> Ready(Some(Err("io"))),
          trace |-> Append(trace, "read:Err")]}
    ELSE IF o.n = 0 THEN
        IF c.eof THEN {[c |-> c, ret |-> Ready(None), trace |-> Append(trace, "read:0")]}
        ELSE FramedLoop([c EXCEPT !.eof = TRUE, !.is_readable = TRUE,
                                  !.stalls = IF c.pos < Len(input) THEN @ + 1 ELSE @],
                        Append(trace, "read:0"))
    ELSE FramedLoop([c EXCEPT !.buffer = @ \o SubSeq(input, c.pos + 1, c.pos + o.n),
                              !.pos = @ + o.n,
                              !.eof = FALSE,
                              !.is_readable = TRUE],
                    Append(trace, "read:n"))

\* the read step gone wrong: a source that is not ready is polled once more
FramedRead_busy(c, trace, o) ==
    IF o.kind = "Pending" THEN
        IF \E k \in DOMAIN trace : trace[k] = "read:Pending"
        THEN {[c |-> c, ret |-> Pending, trace |-> Append(trace, "read:Pending")]}
        ELSE FramedLoop(c, Append(trace, "read:Pending"))
    ELSE IF o.kind = "Err" THEN
        {[c     |-> [c EXCEPT !.has_errored = TRUE, !.errs = @ + 1],
          ret   |-> Ready(Some(Err("io"))),
          trace |-> Append(trace, "read:Err")]}
    ELSE IF o.n = 0 THEN
        IF c.eof THEN {[c |-> c, ret |-> Ready(None), trace |-> Append(trace, "read:0")]}
        ELSE FramedLoop([c EXCEPT !.eof = TRUE, !.is_readable = TRUE,
                                  !.stalls = IF c.pos < Len(input) THEN @ + 1 ELSE @],
                        Append(trace, "read:0"))
    ELSE FramedLoop([c EXCEPT !.buffer = @ \o SubSeq(input, c.pos + 1, c.pos + o.n),
                              !.pos = @ + o.n,
                              !.eof = FALSE,
                              !.is_readable = TRUE],
                    Append(trace, "read:n"))

FramedRead(c, trace, o) ==
    IF o.kind = "Pending" THEN {[c |-> c, ret |-> Pending, trace |-> Append(trace, "read:Pending")]}
    ELSE IF o.kind = "Err" THEN
        {[c     |-> [c EXCEPT !.has_errored = TRUE, !.errs = @ + 1],
          ret   |-> Ready(Some(Err("io"))),
          trace |-> Append(trace, "read:Err")]}
    ELSE IF o.n = 0 THEN
        IF c.eof THEN {[c |-> c, ret |-> Ready(None), trace |-> Append(trace, "read:0")]}
        ELSE FramedLoop([c EXCEPT !.eof = TRUE, !.is_readable = TRUE,
                                  !.stalls = IF c.pos < Len(input) THEN @ + 1 ELSE @],
                        Append(trace, "read:0"))
    ELSE FramedLoop([c EXCEPT !.buffer = @ \o SubSeq(input, c.pos + 1, c.pos + o.n),
                              !.pos = @ + o.n,
                              !.eof = FALSE,
                              !.is_readable = TRUE],
                    Append(trace, "read:n"))

FramedLoop(c, trace) ==
    IF c.has_errored THEN
        {[c     |-> [c EXCEPT !.is_readable = FALSE, !.has_errored = FALSE],
          ret   |-> Ready(None),
          trace |-> trace]}
    ELSE IF c.is_readable /\ c.eof THEN
        LET r == decode_eof(c.d, c.buffer)
        IN  IF r.ret.tag = "Panic" THEN
                {[c |-> c, ret |-> Panic, trace |-> Append(trace, "decode_eof:Panic")]}
            ELSE IF r.ret = None THEN
                {[c     |-> [c EXCEPT !.d = r.d, !.buffer = r.src, !.is_readable = FALSE],
                  ret   |-> Ready(None),
                  trace |-> Append(trace, "decode_eof:None")]}
            ELSE
                {[c     |-> [c EXCEPT !.d = r.d, !.buffer = r.src],
                  ret   |-> Ready(Some(Ok(r.ret.val))),
                  trace |-> Append(trace, "decode_eof:Some")]}
    ELSE IF c.is_readable THEN
        LET r == decode(c.d, c.buffer)
        IN  IF r.ret.tag = "Panic" THEN
                {[c |-> c, ret |-> Panic, trace |-> Append(trace, "decode:Panic")]}
            ELSE IF r.ret.tag = "Some" THEN
                {[c     |-> [c EXCEPT !.d = r.d, !.buffer = r.src],
                  ret   |-> Ready(Some(Ok(r.ret.val))),
                  trace |-> Append(trace, "decode:Some")]}
            ELSE
                LET c1 == [c EXCEPT !.d = r.d, !.buffer = r.src, !.is_readable = FALSE]
                    t1 == Append(trace, "decode:None")
                IN  UNION {FramedRead(c1, t1, o) : o \in ReadOutcomes(c1)}
    ELSE UNION {FramedRead(c, trace, o) : o \in ReadOutcomes(c)}

\* ByteChunker::poll_next hands the call to the FramedRead
Chunker == [d |-> decoder, buffer |-> buffer, eof |-> eof, is_readable |-> is_readable,
            has_errored |-> has_errored, pos |-> pos, errs |-> errs, stalls |-> stalls]

\* poll_next gone wrong: every request starts with a read of the source
poll_next_reread(c) == FramedLoop([c EXCEPT !.is_readable = FALSE], <<>>)

poll_next(c) == FramedLoop(c, <<>>)

\* ----------------------------------------------------------------- adapters
\* Adapter::adapt(Option<Result<Vec<u8>, RcErr>>) -> Option<Item>.
\*   "Simple"    passes every chunk and every error on, None for None
\*   "SkipEmpty" as Simple, but gives nothing for an empty chunk
Adapters == {"Simple", "SkipEmpty"}

adapt(a, x) ==
    IF x = None THEN None
    ELSE IF a = "SkipEmpty" /\ x.val.tag = "Ok" /\ x.val.val = <<>> THEN None
    ELSE x

\* ------------------------------------------------------------------ actions
Ends == Cardinality({i \in DOMAIN results : results[i] = None})

Started == pos > 0 \/ eof \/ results # <<>>

Init ==
    /\ input \in Inputs
    /\ pos = 0
    /\ errs = 0
    /\ phase = "unbuilt"
    /\ decoder = None
    /\ buffer = <<>>
    /\ eof = FALSE
    /\ is_readable = FALSE
    /\ has_errored = FALSE
    /\ adapter = None
    /\ results = <<>>
    /\ items = <<>>
    /\ reconf = 0
    /\ stalls = 0
    /\ rewraps = 0
    /\ last = [op |-> "none", arg |-> None, ret |-> None, inner |-> None, trace |-> <<>>]

\* new gone wrong: it reads the first byte of the source while constructing
New_prefetch(pattern) ==
    /\ phase = "unbuilt"
    /\ LET fence == RegexNew(pattern)
           n     == IF fence.tag = "Err" \/ input = <<>> THEN 0 ELSE 1
       IN  /\ IF fence.tag = "Err"
              THEN /\ phase' = "failed"
                   /\ decoder' = decoder
              ELSE /\ phase' = "built"
                   /\ decoder' = [fence |-> fence.val, match_dispo |-> "Drop", scan_offset |-> 0]
           /\ last' = [op |-> "new", arg |-> pattern,
                       ret |-> IF fence.tag = "Err" THEN fence ELSE Ok("chunker"),
                       inner |-> None, trace |-> <<>>]
           /\ buffer' = SubSeq(input, 1, n)
           /\ pos' = n
    /\ eof' = FALSE
    /\ is_readable' = (buffer' # <<>>)
    /\ has_errored' = FALSE
    /\ UNCHANGED <<input, errs, adapter, results, items, reconf, stalls, rewraps>>

\* ByteChunker::new(source, pattern)
New(pattern) ==
    /\ phase = "unbuilt"
    /\ LET fence == RegexNew(pattern)
       IN  /\ IF fence.tag = "Err"
              THEN /\ phase' = "failed"
                   /\ decoder' = decoder
              ELSE /\ phase' = "built"
                   /\ decoder' = [fence |-> fence.val, match_dispo |-> "Drop", scan_offset |-> 0]
           /\ last' = [op |-> "new", arg |-> pattern, ret |-> IF fence.tag = "Err" THEN fence ELSE Ok("chunker"),
                       inner |-> None, trace |-> <<>>]
    /\ buffer' = <<>>
    /\ eof' = FALSE
    /\ is_readable' = FALSE
    /\ has_errored' = FALSE
    /\ UNCHANGED <<input, pos, errs, adapter, results, items, reconf, stalls, rewraps>>

\* with_match gone wrong: the scan offset is never reset
with_match_keep(d, behavior) ==
    [d EXCEPT !.match_dispo = behavior]

\* with_match gone wrong: the scan offset is reset for every disposition
with_match_reset(d, behavior) ==
    [d EXCEPT !.match_dispo = behavior, !.scan_offset = 0]

\* ByteChunker::with_match(behavior)
with_match(d, behavior) ==
    [d EXCEPT !.match_dispo = behavior,
              !.scan_offset = IF behavior \in {"Drop", "Append"} THEN 0 ELSE @]

WithMatch(behavior) ==
    /\ phase = "built"
    /\ adapter = None
    /\ Started => Events(Chunker) < MaxEvents
    /\ decoder' = with_match(decoder, behavior)
    /\ reconf' = IF Started THEN reconf + 1 ELSE reconf
    /\ last' = [op |-> "with_match", arg |-> behavior, ret |-> Ok("chunker"),
                inner |-> None, trace |-> <<>>]
    /\ UNCHANGED <<input, pos, errs, phase, buffer, eof, is_readable, has_errored,
                   adapter, results, items, stalls, rewraps>>

\* ByteChunker::with_adapter(adapter): the chunker, as it is, becomes the
\* wrapped chunker of a CustomChunker
WithAdapter(a) ==
    /\ phase = "built"
    /\ adapter = None
    /\ Started => Events(Chunker) < MaxEvents
    /\ adapter' = Some(a)
    /\ rewraps' = IF Started THEN rewraps + 1 ELSE rewraps
    /\ last' = [op |-> "with_adapter", arg |-> a, ret |-> Ok("custom"),
                inner |-> None, trace |-> <<>>]
    /\ UNCHANGED <<input, pos, errs, phase, decoder, buffer, eof, is_readable,
                   has_errored, results, items, reconf, stalls>>

\* CustomChunker::into_innards(): the wrapped chunker, as it is, is a plain
\* ByteChunker again
IntoInnards ==
    /\ phase = "built"
    /\ adapter # None
    /\ Started => Events(Chunker) < MaxEvents
    /\ adapter' = None
    /\ rewraps' = IF Started THEN rewraps + 1 ELSE rewraps
    /\ last' = [op |-> "into_innards", arg |-> adapter.val, ret |-> Ok("chunker"),
                inner |-> None, trace |-> <<>>]
    /\ UNCHANGED <<input, pos, errs, phase, decoder, buffer, eof, is_readable,
                   has_errored, results, items, reconf, stalls>>

\* *CustomChunker::get_adapter_mut() = a: the adapter is replaced in place
GetAdapterMut(a) ==
    /\ phase = "built"
    /\ adapter # None
    /\ adapter.val # a
    /\ Started => Events(Chunker) < MaxEvents
    /\ adapter' = Some(a)
    /\ rewraps' = IF Started THEN rewraps + 1 ELSE rewraps
    /\ last' = [op |-> "get_adapter_mut", arg |-> a, ret |-> Ok("custom"),
                inner |-> None, trace |-> <<>>]
    /\ UNCHANGED <<input, pos, errs, phase, decoder, buffer, eof, is_readable,
                   has_errored, results, items, reconf, stalls>>

\* what one run of the wrapped chunker's poll_next does to the chunker state
Polled(r) ==
    /\ decoder' = r.c.d
    /\ buffer' = r.c.buffer
    /\ eof' = r.c.eof
    /\ is_readable' = r.c.is_readable
    /\ has_errored' = r.c.has_errored
    /\ pos' = r.c.pos
    /\ errs' = r.c.errs
    /\ stalls' = r.c.stalls
    /\ phase' = IF r.ret = Panic THEN "panicked" ELSE phase
    /\ results' = IF r.ret.tag = "Ready" THEN Append(results, r.ret.val) ELSE results

\* <ByteChunker as Stream>::poll_next
PollNext ==
    /\ phase = "built"
    /\ adapter = None
    /\ Ends < MaxEnds
    /\ \E r \in poll_next(Chunker) :
          /\ Polled(r)
          /\ last' = [op |-> "poll_next", arg |-> None, ret |-> r.ret, inner |-> r.ret,
                      trace |-> r.trace]
    /\ UNCHANGED <<input, adapter, items, reconf, rewraps>>

\* CustomChunker::poll_next gone wrong: an error of the wrapped chunker ends
\* the stream without being shown to the adapter
custom_poll_next_swallow(a, c) ==
    {[c |-> r.c, inner |-> r.ret, trace |-> r.trace,
      ret |-> IF r.ret.tag = "Ready"
              THEN (IF r.ret.val.tag = "Some" /\ r.ret.val.val.tag = "Err" THEN Ready(None) ELSE Ready(adapt(a, r.ret.val)))
              ELSE r.ret]
        : r \in poll_next(c)}

\* <CustomChunker as Stream>::poll_next
custom_poll_next(a, c) ==
    {[c |-> r.c, inner |-> r.ret, trace |-> r.trace,
      ret |-> IF r.ret.tag = "Ready" THEN Ready(adapt(a, r.ret.val)) ELSE r.ret]
        : r \in poll_next(c)}

CustomPollNext ==
    /\ phase = "built"
    /\ adapter # None
    /\ Ends < MaxEnds
    /\ \E r \in custom_poll_next(adapter.val, Chunker) :
          /\ Polled([c |-> r.c, ret |-> r.inner])
          /\ items' = IF r.ret.tag = "Ready"
                      THEN Append(items, [raw |-> r.inner.val, out |-> r.ret.val,
                                          a |-> adapter.val, at |-> Len(results')])
                      ELSE items
          /\ last' = [op |-> "custom_poll_next", arg |-> None, ret |-> r.ret, inner |-> r.inner,
                      trace |-> r.trace]
    /\ UNCHANGED <<input, adapter, reconf, rewraps>>

Next ==
    \/ \E pattern \in Patterns : New(pattern)
    \/ \E behavior \in Dispositions : WithMatch(behavior)
    \/ \E a \in Adapters : WithAdapter(a)
    \/ IntoInnards
    \/ \E a \in Adapters : GetAdapterMut(a)
    \/ PollNext
    \/ CustomPollNext

Spec == Init /\ [][Next]_vars

\* ------------------------------------------------------ reference results
\* tests::chunk_vec(re, v, mode): the split of the whole content v that the
\* tests basic_async and slow_async compare the stream's chunks against.
\* offs is where the next search starts, prev_offs where the last match began.
RECURSIVE chunk_vec_from(_, _, _, _, _)
chunk_vec_from(re, v, mode, offs, prev_offs) ==
    LET m == FindFrom(re, v, offs)
    IN  IF m = None THEN
            LET tail == IF mode = "Prepend" THEN prev_offs ELSE offs
            IN  IF tail < Len(v) THEN <<SubSeq(v, tail + 1, Len(v))>> ELSE <<>>
        ELSE LET start == m.val[1]
                 end   == m.val[2]
             IN  CASE mode = "Drop" ->
                        <<SubSeq(v, offs + 1, start)>> \o chunk_vec_from(re, v, mode, end, start)
                   [] mode = "Append" ->
                        <<SubSeq(v, offs + 1, end)>> \o chunk_vec_from(re, v, mode, end, start)
                   [] mode = "Prepend" ->
                        <<SubSeq(v, prev_offs + 1, start)>> \o chunk_vec_from(re, v, mode, end, start)

chunk_vec(re, v, mode) == chunk_vec_from(re, v, mode, 0, 0)

\* the content v with every match of the fence removed
RECURSIVE Residue(_, _, _)
Residue(re, v, offs) ==
    LET m == FindFrom(re, v, offs)
    IN  IF m = None THEN SubSeq(v, offs + 1, Len(v))
        ELSE SubSeq(v, offs + 1, m.val[1]) \o Residue(re, v, m.val[2])

\* ------------------------------------------------- observations on a run
IsChunk(x) == x.tag = "Some" /\ x.val.tag = "Ok"
IsErr(x) == x.tag = "Some" /\ x.val.tag = "Err"

\* the chunks among the results rs, in order
RECURSIVE ChunksOf(_)
ChunksOf(rs) ==
    IF rs = <<>> THEN <<>>
    ELSE (IF IsChunk(Head(rs)) THEN <<Head(rs).val.val>> ELSE <<>>) \o ChunksOf(Tail(rs))

RECURSIVE Concat(_)
Concat(ss) == IF ss = <<>> THEN <<>> ELSE Head(ss) \o Concat(Tail(ss))

\* total length of the first n sequences of ss
RECURSIVE LenUpTo(_, _)
LenUpTo(ss, n) == IF n = 0 THEN 0 ELSE LenUpTo(ss, n - 1) + Len(ss[n])

Chunks == ChunksOf(results)
Built == phase = "built"
Dispo == decoder.match_dispo
Fence == decoder.fence

\* the source has handed out all its content and reported its end, the
\* end-of-input flush is over and the chunker has reported end-of-stream
Finished ==
    /\ Built /\ eof /\ pos = Len(input) /\ ~is_readable /\ ~has_errored
    /\ results # <<>> /\ results[Len(results)] = None

\* the disposition in force has been the same for every decode of the run
Steady == Built /\ reconf = 0

\* the source has reported 0 bytes only at the end of its content
Proper == stalls = 0

\* ------------------------------------------------------------------ claims

\* C1: whatever way the source cuts its content into deliveries, the chunks
\* yielded up to end-of-stream are the reference split of the whole content,
\* for every pattern and every disposition.
C1_PartitionIndependent ==
    (Steady /\ Proper /\ Finished) => Chunks = chunk_vec(Fence, input, Dispo)

\* C2: under Drop no emitted chunk holds a fence match, and the chunks put
\* together in order are the content with every fence match removed.
C2_DropResidue ==
    (Steady /\ Proper /\ Finished /\ Dispo = "Drop") =>
        /\ \A i \in DOMAIN Chunks : FindFrom(Fence, Chunks[i], 0) = None
        /\ Concat(Chunks) = Residue(Fence, input, 0)

\* chunk i ends with one match of the fence, and that match is the whole
\* match the content has at that place
EndsWithFullMatch(i) ==
    LET c   == Chunks[i]
        off == LenUpTo(Chunks, i - 1)
        m   == FindFrom(Fence, c, 0)
    IN  /\ m # None
        /\ m.val[2] = Len(c)
        /\ MatchFrom(Fence, 1, input, off + m.val[1]) = off + Len(c)

\* C3: under Append every emitted chunk but possibly the last ends with
\* exactly one full match of the fence, its whole trailing separator run.
C3_AppendEndsWithFence ==
    (Steady /\ Proper /\ Finished /\ Dispo = "Append") =>
        \A i \in 1 .. (Len(Chunks) - 1) : EndsWithFullMatch(i)

\* chunk i begins with one match of the fence, that match is the whole match
\* the content has at that place, and the chunk holds no other match
BeginsWithFullMatch(i) ==
    LET c   == Chunks[i]
        off == LenUpTo(Chunks, i - 1)
        m   == FindFrom(Fence, c, 0)
    IN  /\ m # None
        /\ m.val[1] = 0
        /\ MatchFrom(Fence, 1, input, off) = off + m.val[2]
        /\ FindFrom(Fence, c, m.val[2]) = None

\* C4: under Prepend every emitted chunk but the first begins with exactly
\* one full match of the fence, the one that closed the chunk before it, and
\* the first chunk begins with a match only if the content does.
C4_PrependBeginsWithFence ==
    (Steady /\ Proper /\ Dispo = "Prepend") =>
        /\ \A i \in 2 .. Len(Chunks) : BeginsWithFullMatch(i)
        /\ (Chunks # <<>> /\ MatchFrom(Fence, 1, Chunks[1], 0) # -1)
               => MatchFrom(Fence, 1, input, 0) # -1

\* C5: in the request in which the source reports its end, a non-empty
\* remainder (the buffer and what the request has read) without a further
\* match is yielded whole as one final chunk and an empty remainder yields
\* end-of-stream at once; with the buffer empty at end-of-input no further
\* chunk is produced unless the source hands out bytes again.
C5_EofFlush ==
    [][ LET remainder == buffer \o SubSeq(input, pos + 1, pos')
        IN  /\ (Built /\ ~eof /\ eof' /\ remainder # <<>>
                  /\ find_at(Fence, remainder, decoder.scan_offset) = None)
                => (results' = Append(results, Some(Ok(remainder))) /\ buffer' = <<>>)
            /\ (Built /\ ~eof /\ eof' /\ remainder = <<>>)
                => results' = Append(results, None)
            /\ (Built /\ eof /\ buffer = <<>> /\ pos' = pos)
                => ChunksOf(results') = ChunksOf(results) ]_vars

\* C5 witness: the end-of-input request has just flushed a remainder
C5_Witness ==
    /\ Built /\ eof /\ buffer = <<>>
    /\ last.op = "poll_next"
    /\ \E k \in DOMAIN last.trace : last.trace[k] = "read:0"
    /\ last.ret.tag = "Ready" /\ IsChunk(last.ret.val)
    /\ last.ret.val.val.val # <<>>
    /\ FindFrom(Fence, last.ret.val.val.val, 0) = None
    /\ Len(Chunks) > 1

\* C6: a CustomChunker reports end-of-stream only when the wrapped chunker
\* has: an adapter that gives nothing for a raw chunk makes it pull the next
\* raw chunk.
C6_SkipPullsNext ==
    \A i \in DOMAIN items : items[i].out = None => items[i].raw = None

NoMatch == Built /\ Proper /\ FindFrom(Fence, input, 0) = None

\* C7 as stated: a content without any match yields exactly one chunk, the
\* whole content, and only after the source has reported its end.
C7_NoMatchOneChunk ==
    NoMatch =>
        /\ Chunks # <<>> => (eof /\ pos = Len(input) /\ Chunks = <<input>>)
        /\ Finished => Chunks = <<input>>

\* C7 amended: as C7 for a non-empty content; an empty content yields no
\* chunk at all.
C7_NoMatchOneChunkNonEmpty ==
    NoMatch =>
        /\ Chunks # <<>> => (eof /\ pos = Len(input) /\ Chunks = <<input>>)
        /\ Finished => Chunks = (IF input = <<>> THEN <<>> ELSE <<input>>)

\* C7 witness: a content without a match, delivered, flushed and finished
C7_Witness ==
    /\ NoMatch /\ Finished /\ Len(input) > 1 /\ Chunks = <<input>>

\* C8: after the source has reported its end every request gives a chunk or
\* end-of-stream, and after the first end-of-stream every request gives
\* end-of-stream again, under every disposition.
C8_EndOfStreamSticky ==
    [][ (Built /\ eof) =>
            /\ phase' = "built"
            /\ Finished => results' \in {results, Append(results, None)} ]_vars

\* C9: a failed read is reported on the same request as the last thing the
\* request does; the decoder is as before, the buffer is what it was when the
\* read failed, nothing is flushed, and the request after it reports
\* end-of-stream with the buffer still in place.
C9_ErrorLeavesState ==
    [][ /\ (Built /\ errs' # errs) =>
              /\ results' = Append(results, Some(Err("io")))
              /\ last'.trace[Len(last'.trace)] = "read:Err"
              /\ Cardinality({k \in DOMAIN last'.trace : last'.trace[k] = "read:Err"}) = 1
              /\ decoder' = decoder
              /\ buffer' = buffer \o SubSeq(input, pos + 1, pos')
        /\ (Built /\ has_errored /\ last'.op \in {"poll_next", "custom_poll_next"}) =>
              /\ results' = Append(results, None)
              /\ decoder' = decoder /\ buffer' = buffer /\ pos' = pos ]_vars

\* C9 witness: a read has failed with bytes in the buffer behind a kept fence
C9_Witness ==
    /\ Built /\ has_errored /\ buffer # <<>> /\ decoder.scan_offset > 0
    /\ Len(buffer) > decoder.scan_offset
    /\ IsErr(results[Len(results)])

InvalidPatterns == { <<"+">> }

\* C10: new with an invalid pattern returns an error and no chunker; new,
\* with_match and with_adapter leave the source alone; until the first chunk
\* request has an effect nothing is read, the buffer is empty and the scan
\* offset is 0.
C10_LazyConstruction ==
    /\ []((last.op = "new" /\ last.arg \in InvalidPatterns) =>
              (phase = "failed" /\ decoder = None /\ last.ret.tag = "Err"))
    /\ [](phase = "failed" => (pos = 0 /\ errs = 0 /\ buffer = <<>> /\ results = <<>>))
    /\ []((Built /\ ~Started) =>
              (errs = 0 /\ buffer = <<>> /\ decoder.scan_offset = 0 /\ ~is_readable))
    /\ [][ last'.op \in {"new", "with_match", "with_adapter"} =>
              (pos' = pos /\ errs' = errs /\ eof' = eof /\ buffer' = buffer
               /\ results' = results) ]_vars

\* C10 witness: built, reconfigured and wrapped, and nothing read yet
C10_Witness ==
    /\ Built /\ ~Started /\ input # <<>>
    /\ Dispo = "Prepend" /\ adapter # None /\ last.op = "with_adapter"

\* what is left to do at end-of-input: it shrinks with every chunk cut there
Measure == 2 * Len(buffer) - decoder.scan_offset

\* C11: once the source has reported its end, every request either cuts a
\* chunk and makes progress through the buffer or reports end-of-stream, so
\* end-of-stream comes after finitely many chunks, under every disposition.
C11_FiniteChunks ==
    [][ (Built /\ eof /\ pos = Len(input) /\ errs' = errs) =>
            /\ phase' = "built"
            /\ results' # results =>
                  \/ results' = Append(results, None)
                  \/ /\ IsChunk(results'[Len(results')])
                     /\ 2 * Len(buffer') - decoder'.scan_offset < Measure ]_vars

\* C12: the scan offset never exceeds the length of the buffer.
C12_OffsetWithinBuffer ==
    Built => decoder.scan_offset <= Len(buffer)

\* C13: whenever the disposition is Drop or Append the scan offset is 0,
\* also after a chunker in use under Prepend is reconfigured.
C13_OffsetZeroUnlessPrepend ==
    (Built /\ Dispo \in {"Drop", "Append"}) => decoder.scan_offset = 0

\* C13 witness: a chunker that has cut a chunk under Prepend and still holds
\* the kept fence has just been reconfigured to Drop
C13_Witness ==
    /\ Built /\ last.op = "with_match" /\ last.arg = "Drop" /\ reconf = 1
    /\ Chunks # <<>> /\ ~eof
    /\ Len(Fence) = 1 /\ Fence[1].quant = "+"
    /\ MatchFrom(Fence, 1, buffer, 0) # -1

IsPoll(op) == op \in {"poll_next", "custom_poll_next"}
IsRead(e) == e \in {"read:n", "read:0", "read:Pending", "read:Err"}
HoldsMatch == find_at(Fence, buffer, decoder.scan_offset).tag = "Some"

\* C14 as stated: the source is polled only right after a decode attempt on
\* the buffer found no match (a read that opens a request finds a buffer
\* without a match), and a buffer that holds a match at or after the scan
\* offset is answered with that chunk without a source read.
C14_NoOverRead ==
    [][ (Built /\ IsPoll(last'.op)) =>
            /\ \A k \in DOMAIN last'.trace :
                  IsRead(last'.trace[k]) =>
                      IF k > 1 THEN last'.trace[k - 1] = "decode:None" ELSE ~HoldsMatch
            /\ HoldsMatch =>
                  (/\ pos' = pos
                   /\ last'.inner = Ready(Some(Ok(decode(decoder, buffer).ret.val)))) ]_vars

\* C14 amended: as C14, for a chunker on which with_match is not called once
\* it is in use.
C14_NoOverReadSteady ==
    [][ (Steady /\ IsPoll(last'.op)) =>
            /\ \A k \in DOMAIN last'.trace :
                  IsRead(last'.trace[k]) =>
                      IF k > 1 THEN last'.trace[k - 1] = "decode:None" ELSE ~HoldsMatch
            /\ HoldsMatch =>
                  (/\ pos' = pos
                   /\ last'.inner = Ready(Some(Ok(decode(decoder, buffer).ret.val)))) ]_vars

\* C14 witness: two matches were buffered by one read; the second chunk has
\* just been handed out without a read
C14_Witness ==
    /\ Steady /\ IsPoll(last.op) /\ last.trace = <<"decode:Some">>
    /\ Len(Chunks) = 2 /\ ~eof /\ pos = Len(input) /\ buffer # <<>>

\* C15: a decode call that finds no match returns None and leaves the buffer,
\* the scan offset and the disposition as they were; a request that only went
\* through such a call changes nothing, and the search made after more bytes
\* arrived is the search from the same offset over the longer buffer.
C15_NoMatchChangesNothing ==
    /\ [](Built =>
            (find_at(Fence, buffer, decoder.scan_offset) = None =>
                decode(decoder, buffer) = [ret |-> None, d |-> decoder, src |-> buffer]))
    /\ [][ (Built /\ IsPoll(last'.op)) =>
            /\ last'.trace = <<"decode:None", "read:Pending">> =>
                  (buffer' = buffer /\ decoder' = decoder /\ results' = results)
            /\ last'.trace = <<"decode:None", "read:n", "decode:Some">> =>
                  last'.inner = Ready(Some(Ok(
                      decode(decoder, buffer \o SubSeq(input, pos + 1, pos')).ret.val))) ]_vars

\* C15 witness: under Prepend a fence is kept at the front of the buffer, the
\* search past it found nothing, and the chunk was cut after more bytes came
C15_Witness ==
    /\ Steady /\ Dispo = "Prepend" /\ IsPoll(last.op)
    /\ last.trace = <<"decode:None", "read:n", "decode:Some">>
    /\ Len(Chunks) >= 2 /\ Chunks[Len(Chunks)] # <<>>
    /\ MatchFrom(Fence, 1, Chunks[Len(Chunks)], 0) # -1

\* C16: with_match(d) sets the disposition to d; the scan offset becomes 0
\* for Drop and Append and stays as it was for Prepend; the pattern, the
\* buffer, the source position and the rest of the chunker are unchanged and
\* the chunker itself is returned.
C16_WithMatchFrame ==
    [][ last'.op = "with_match" =>
            /\ decoder'.match_dispo = last'.arg
            /\ decoder'.scan_offset =
                  IF last'.arg \in {"Drop", "Append"} THEN 0 ELSE decoder.scan_offset
            /\ decoder'.fence = decoder.fence
            /\ buffer' = buffer /\ pos' = pos
            /\ eof' = eof /\ is_readable' = is_readable /\ has_errored' = has_errored
            /\ results' = results /\ phase' = phase
            /\ last'.ret = Ok("chunker") ]_vars

\* C16 witness: with_match(Prepend) was called while a fence was kept at the
\* front of the buffer
C16_Witness ==
    /\ Built /\ last.op = "with_match" /\ last.arg = "Prepend"
    /\ decoder.scan_offset > 0 /\ buffer # <<>> /\ reconf = 1

IsDecode(e) == ~IsRead(e)
CountOf(trace, P(_)) == Cardinality({k \in DOMAIN trace : P(trace[k])})

\* C17 as stated: one invocation of poll_next makes at most one decode attempt
\* and at most one source poll, and an invocation that reports "not ready"
\* leaves the buffer and the scan offset unchanged.
C17_OneDecodeOnePoll ==
    [][ (Built /\ IsPoll(last'.op)) =>
            /\ CountOf(last'.trace, IsDecode) <= 1
            /\ CountOf(last'.trace, IsRead) <= 1
            /\ last'.inner = Pending =>
                  (buffer' = buffer /\ decoder' = decoder /\ results' = results) ]_vars

\* C17 amended: within one invocation decode attempts and source polls take
\* turns, and the invocation returns at the first chunk, the first "not ready",
\* the first error or the end of the stream; an invocation that reports "not
\* ready" has at most appended the bytes it read to the buffer: the decoder
\* (scan offset, disposition) is unchanged and no chunk was cut.
C17_DecodeAndPollTakeTurns ==
    [][ (Built /\ IsPoll(last'.op)) =>
            /\ \A k \in DOMAIN last'.trace :
                  k < Len(last'.trace) =>
                      /\ last'.trace[k] \in {"decode:None", "read:n", "read:0"}
                      /\ IsRead(last'.trace[k]) # IsRead(last'.trace[k + 1])
            /\ last'.inner = Pending =>
                  /\ last'.trace[Len(last'.trace)] = "read:Pending"
                  /\ buffer' = buffer \o SubSeq(input, pos + 1, pos')
                  /\ decoder' = decoder /\ results' = results ]_vars

\* C17 witness: one invocation read twice and decoded twice before it
\* reported "not ready", and the buffer grew
C17_Witness ==
    /\ Built /\ IsPoll(last.op) /\ last.inner = Pending
    /\ last.trace = <<"read:n", "decode:None", "read:n", "decode:None", "read:Pending">>
    /\ Len(buffer) >= 2

\* C18: with Append or Prepend as the disposition of the whole run, the
\* chunks yielded so far followed by the buffer are the bytes read so far, for
\* every content and every way of delivering it, so at end-of-stream the
\* chunks put together are the content.
C18_ByteConservation ==
    (Steady /\ Dispo \in {"Append", "Prepend"}) =>
        /\ Concat(Chunks) \o buffer = SubSeq(input, 1, pos)
        /\ Finished => Concat(Chunks) = input

\* C18 witness: a Prepend run over fenced content, delivered in pieces, has
\* come to end-of-stream with a flush chunk
C18_Witness ==
    /\ Steady /\ Finished /\ Dispo = "Prepend"
    /\ Len(Chunks) = 3 /\ Len(input) = 3 /\ Chunks[3] # <<>>
    /\ \E k \in DOMAIN results : IsErr(results[k])

\* C19: every ready result the wrapped chunker gives while it is wrapped
\* (chunk, error, end of stream) goes through the adapter of that moment
\* once, in order, and the adapter's answer is what CustomChunker returns; a
\* "not ready" of the wrapped chunker is passed on without a call of the
\* adapter.
C19_AdapterOncePerResult ==
    /\ [](\A i \in DOMAIN items :
            /\ items[i].at \in DOMAIN results
            /\ items[i].raw = results[items[i].at]
            /\ items[i].out = adapt(items[i].a, items[i].raw)
            /\ i > 1 => items[i - 1].at < items[i].at)
    /\ [][ last'.op = "custom_poll_next" =>
            /\ last'.inner = Pending => (items' = items /\ last'.ret = Pending)
            /\ last'.inner.tag = "Ready" =>
                  /\ last'.ret = Ready(adapt(adapter.val, last'.inner.val))
                  /\ items' = Append(items, [raw |-> last'.inner.val, out |-> last'.ret.val,
                                             a |-> adapter.val, at |-> Len(results')])
                  /\ results' = Append(results, last'.inner.val) ]_vars
    /\ [][ (Built /\ adapter # None) =>
            Len(results') - Len(results) = Len(items') - Len(items) ]_vars

\* C19 witness: a chunk, an error and the end of the stream have gone through
\* the adapter, with a "not ready" in between
C19_Witness ==
    /\ adapter # None /\ Finished /\ Len(items) >= 3
    /\ \E i \in DOMAIN items : IsErr(items[i].raw)
    /\ \E i \in DOMAIN items : IsChunk(items[i].raw) /\ items[i].raw.val.val # <<>>
    /\ items[Len(items)].raw = None

====
